---- MODULE Spec2Model ----
(***************************************************************************)
(* The Posts page and the CRUD action factory of react-crud.               *)
(*                                                                         *)
(* The page owns four pieces of React state (posts, loading, error,        *)
(* formData).  On every render it builds four asynchronous handlers; the   *)
(* create, update and delete handlers close over the `posts` value of the  *)
(* render that built them, so a request carries the list as it was when    *)
(* the request was issued.  A request is in flight from the `await fetch`  *)
(* of its handler until the continuation after the await runs.             *)
(*                                                                         *)
(* Strings are sequences of characters, so that String.prototype.trim is   *)
(* computed and not assumed.  JavaScript `undefined` for the optional id   *)
(* is the value Undefined; identifiers proper are naturals.                *)
(***************************************************************************)
EXTENDS Integers, Sequences, FiniteSets, Bags, TLC

VARIABLES
    posts,      \* useState<Post[]>([])
    loading,    \* useState(true)
    error,      \* useState<string | null>(null)
    formData,   \* useState<Post>({postId: 0, title: "", body: ""})
    mounted,    \* the mount effect (useEffect with []) has run
    inflight,   \* bag of requests awaiting their response
    issued,     \* number of requests issued so far
    last        \* the step taken last: its kind, the request it settled
                \* and the response body

vars == <<posts, loading, error, formData, mounted, inflight, issued, last>>

-----------------------------------------------------------------------------
(* Bounds of the model *)

\* at most this many requests await a response at once
MaxInFlight == 2
\* at most this many requests are issued over the life of the page
MaxRequests == 3

-----------------------------------------------------------------------------
(* Values *)

Undefined == -1
Null == "null"

EmptyStr == <<>>

\* what the user types into the title input and into the body textarea
TypedTitle == {<<" ">>, <<" ", "b">>}
TypedBody == {<<"b">>}

\* text of the entities the remote API holds
ServerText == <<"a">>

Post(id, postId, title, body) ==
    [id |-> id, postId |-> postId, title |-> title, body |-> body]

\* { postId: 0, title: "", body: "" }: the empty template, no id
clearFormData == Post(Undefined, 0, EmptyStr, EmptyStr)

ServerPost(id) == Post(id, 1, ServerText, ServerText)

\* the bodies GET /posts can answer with: identifiers pairwise distinct
Bodies ==
    { <<ServerPost(2)>>,
      <<ServerPost(3), ServerPost(1)>> }

\* messages of the errors a request can end in
HttpErrorMsg == "HTTP error! status: 500"
TransportMsg == "Failed to fetch"
FailureMsgs == {HttpErrorMsg, TransportMsg}

ValidationMsg == "Please fill in all fields"
NoIdMsg == "Cannot update post without an ID"

-----------------------------------------------------------------------------
(* Pure functions *)

IsSpace(c) == c = " "

RECURSIVE trim(_)
trim(s) ==
    IF s = <<>> THEN s
    ELSE IF IsSpace(Head(s)) THEN trim(Tail(s))
    ELSE IF IsSpace(s[Len(s)]) THEN trim(SubSeq(s, 1, Len(s) - 1))
    ELSE s

\* variant: only a missing id counts as absent
IsDefined(id) == id # Undefined

\* JavaScript truthiness of an optional number: undefined and 0 are falsy
Truthy(id) == id # Undefined /\ id # 0

\* variant: the fields tested without trim()
InvalidFormUntrimmed(f) == f.title = EmptyStr \/ f.body = EmptyStr

\* !formData.title.trim() || !formData.body.trim()
InvalidForm(f) == trim(f.title) = EmptyStr \/ trim(f.body) = EmptyStr

SetMax(S) == CHOOSE m \in S : \A x \in S : x <= m

\* item.id || 0
IdOrZero(item) == IF Truthy(item.id) THEN item.id ELSE 0

\* variant: one plus the identifier of the last element
maxIdOfLast(items) ==
    IF Len(items) > 0 THEN IdOrZero(items[Len(items)]) ELSE 0

\* items.length > 0 ? Math.max(...items.map(item => item.id || 0)) : 0
maxId(items) ==
    IF Len(items) > 0
    THEN SetMax({IdOrZero(items[i]) : i \in 1..Len(items)})
    ELSE 0

\* variant: the body merged into the list newest first
FetchResultReversed(data) == [i \in 1..Len(data) |-> data[Len(data) + 1 - i]]

\* setItems(data)
FetchResult(data) == data

\* variant: the identifier taken from the length of the list
CreateResultByLength(items, newItem) ==
    Append(items, [newItem EXCEPT !.id = Len(items) + 1])

\* variant: the new element put first
CreateResultPrepended(items, newItem) ==
    <<[newItem EXCEPT !.id = maxId(items) + 1]>> \o items

\* [...items, { ...newItem, id: maxId + 1 }]
CreateResult(items, newItem) ==
    Append(items, [newItem EXCEPT !.id = maxId(items) + 1])

\* variant: the submitted item put in place of the server's answer
UpdateResultSubmitted(items, itemData, savedItem) ==
    [i \in 1..Len(items) |->
        IF items[i].id = itemData.id THEN itemData ELSE items[i]]

\* items.map(item => item.id === itemData.id ? savedItem : item)
UpdateResult(items, itemData, savedItem) ==
    [i \in 1..Len(items) |->
        IF items[i].id = itemData.id THEN savedItem ELSE items[i]]

\* variant: === in place of !==
KeepSame(item, id) == item.id = id

\* item.id !== id
KeepOther(item, id) == item.id # id

\* items.filter(item => item.id !== id)
DeleteResult(items, id) == SelectSeq(items, LAMBDA item : KeepOther(item, id))

-----------------------------------------------------------------------------
(* Requests and the remote API *)

Request(kind, items, itemData, id) ==
    [kind |-> kind, items |-> items, itemData |-> itemData, id |-> id]

NoRequest == Request("none", <<>>, clearFormData, 0)

\* POST answers with the submitted representation under a server-side id
CreateResponses(itemData) == {[itemData EXCEPT !.id = 101]}

\* PUT answers with the submitted identifier and the server's own
\* representation of the entity: the title comes back trimmed
UpdateResponses(itemData) == {[itemData EXCEPT !.title = trim(@)]}

InFlightCount == BagCardinality(inflight)

CanIssue == InFlightCount < MaxInFlight /\ issued < MaxRequests

Issue(r) ==
    /\ inflight' = inflight (+) SetToBag({r})
    /\ issued' = issued + 1

Settle(r) ==
    /\ inflight' = inflight (-) SetToBag({r})
    /\ UNCHANGED issued

Step(op, r, data) ==
    last' = [op |-> op, req |-> r, data |-> data]

-----------------------------------------------------------------------------
Init ==
    /\ posts = <<>>
    /\ loading = TRUE
    /\ error = Null
    /\ formData = clearFormData
    /\ mounted = FALSE
    /\ inflight = EmptyBag
    /\ issued = 0
    /\ last = [op |-> "init", req |-> NoRequest, data |-> <<>>]

-----------------------------------------------------------------------------
(* The handlers of the action factory, up to their await *)

\* variant: the loading flag left as it is when a fetch is issued
handleFetchPostsNoLoading(op) ==
    /\ CanIssue
    /\ error' = Null
    /\ Issue(Request("fetch", posts, clearFormData, 0))
    /\ Step(op, NoRequest, <<>>)
    /\ UNCHANGED <<posts, loading, formData>>

\* createFetchHandler: setLoading(true); setError(null); await fetch(baseUrl)
\* (the fetch handler does not close over posts: the list kept in its request
\* is the one the page held at the call, and no step of the handler reads it)
handleFetchPosts(op) ==
    /\ CanIssue
    /\ loading' = TRUE
    /\ error' = Null
    /\ Issue(Request("fetch", posts, clearFormData, 0))
    /\ Step(op, NoRequest, <<>>)
    /\ UNCHANGED <<posts, formData>>

\* createCreateHandler: setError(null); await fetch(baseUrl, POST)
handleCreatePost(op, itemData) ==
    /\ CanIssue
    /\ error' = Null
    /\ Issue(Request("create", posts, itemData, 0))
    /\ Step(op, NoRequest, <<>>)
    /\ UNCHANGED <<posts, loading, formData>>

\* createUpdateHandler: setError(null); throws without an id, else
\* await fetch(`${baseUrl}/${itemData.id}`, PUT)
handleUpdatePost(op, itemData) ==
    /\ Step(op, NoRequest, <<itemData>>)
    /\ IF ~Truthy(itemData.id)
       THEN /\ error' = NoIdMsg
            /\ UNCHANGED <<posts, loading, formData, inflight, issued>>
       ELSE /\ CanIssue
            /\ error' = Null
            /\ Issue(Request("update", posts, itemData, itemData.id))
            /\ UNCHANGED <<posts, loading, formData>>

\* variant: the error message left as it is when a delete is issued
handleDeletePostKeepsError(op, id) ==
    /\ CanIssue
    /\ Issue(Request("delete", posts, clearFormData, id))
    /\ Step(op, NoRequest, <<>>)
    /\ UNCHANGED <<posts, loading, error, formData>>

\* createDeleteHandler: setError(null); await fetch(`${baseUrl}/${id}`, DELETE)
handleDeletePost(op, id) ==
    /\ CanIssue
    /\ error' = Null
    /\ Issue(Request("delete", posts, clearFormData, id))
    /\ Step(op, NoRequest, <<>>)
    /\ UNCHANGED <<posts, loading, formData>>

-----------------------------------------------------------------------------
(* The page: mount and user events *)

\* useEffect(() => { handleFetchPosts(); }, [])
Mount ==
    /\ ~mounted
    /\ mounted' = TRUE
    /\ handleFetchPosts("ui")

\* Refresh Data: window.confirm, then handleFetchPosts
Refresh ==
    /\ mounted
    /\ \E confirmed \in BOOLEAN :
        IF confirmed
        THEN handleFetchPosts("ui")
        ELSE /\ Step("ui", NoRequest, <<>>)
             /\ UNCHANGED <<posts, loading, error, formData, inflight, issued>>
    /\ UNCHANGED mounted

\* onChange of the title input
ChangeTitle ==
    /\ mounted
    /\ \E v \in TypedTitle :
        /\ v # formData.title
        /\ formData' = [formData EXCEPT !.title = v]
    /\ Step("ui", NoRequest, <<>>)
    /\ UNCHANGED <<posts, loading, error, mounted, inflight, issued>>

\* onChange of the body textarea
ChangeBody ==
    /\ mounted
    /\ \E v \in TypedBody :
        /\ v # formData.body
        /\ formData' = [formData EXCEPT !.body = v]
    /\ Step("ui", NoRequest, <<>>)
    /\ UNCHANGED <<posts, loading, error, mounted, inflight, issued>>

\* variant: every valid submit goes to the create handler
handleSubmitAlwaysCreates ==
    /\ mounted
    /\ IF InvalidForm(formData)
       THEN /\ error' = ValidationMsg
            /\ Step("submitInvalid", NoRequest, <<>>)
            /\ UNCHANGED <<posts, loading, formData, inflight, issued>>
       ELSE handleCreatePost("submitCreate", formData)
    /\ UNCHANGED mounted

handleSubmit ==
    /\ mounted
    /\ IF InvalidForm(formData)
       THEN /\ error' = ValidationMsg
            /\ Step("submitInvalid", NoRequest, <<>>)
            /\ UNCHANGED <<posts, loading, formData, inflight, issued>>
       ELSE IF Truthy(formData.id)
            THEN handleUpdatePost("submitUpdate", formData)
            ELSE handleCreatePost("submitCreate", formData)
    /\ UNCHANGED mounted

\* the rows, with their buttons, are rendered only when not loading
RowsShown == ~loading /\ Len(posts) > 0

startEdit ==
    /\ mounted
    /\ RowsShown
    /\ \E i \in 1..Len(posts) :
        formData' = Post(posts[i].id, posts[i].postId,
                         posts[i].title, posts[i].body)
    /\ Step("ui", NoRequest, <<>>)
    /\ UNCHANGED <<posts, loading, error, mounted, inflight, issued>>

\* the Cancel button is rendered only in edit mode
isEditing == Truthy(formData.id)

resetForm ==
    /\ mounted
    /\ isEditing
    /\ formData' = clearFormData
    /\ error' = Null
    /\ Step("cancel", NoRequest, <<>>)
    /\ UNCHANGED <<posts, loading, mounted, inflight, issued>>

\* variant: the answer of window.confirm ignored
ProceedsAnyway(confirmed) == TRUE

\* if (window.confirm(...)): the delete handler runs only when confirmed
DeleteProceeds(confirmed) == confirmed

\* Delete button of a row: window.confirm, then handleDeletePost(post.id)
ClickDelete ==
    /\ mounted
    /\ RowsShown
    /\ \E i \in 1..Len(posts), confirmed \in BOOLEAN :
        LET op == IF confirmed THEN "deleteConfirmed" ELSE "deleteDeclined"
        IN  IF DeleteProceeds(confirmed)
            THEN handleDeletePost(op, posts[i].id)
            ELSE /\ Step(op, NoRequest, <<>>)
                 /\ UNCHANGED <<posts, loading, error, formData,
                                inflight, issued>>
    /\ UNCHANGED mounted

-----------------------------------------------------------------------------
(* The handlers after their await: a response or a failure arrives *)

FetchOk ==
    \E r \in BagToSet(inflight), data \in Bodies :
        /\ r.kind = "fetch"
        /\ posts' = FetchResult(data)
        /\ loading' = FALSE
        /\ Settle(r)
        /\ Step("fetchOk", r, data)
        /\ UNCHANGED <<error, formData, mounted>>

\* variant: no finally block, the loading flag cleared on success only
FetchFailKeepsLoading ==
    \E r \in BagToSet(inflight), msg \in FailureMsgs :
        /\ r.kind = "fetch"
        /\ error' = msg
        /\ Settle(r)
        /\ Step("fetchFail", r, <<>>)
        /\ UNCHANGED <<posts, loading, formData, mounted>>

\* variant: the list emptied when the fetch fails
FetchFailClearsList ==
    \E r \in BagToSet(inflight), msg \in FailureMsgs :
        /\ r.kind = "fetch"
        /\ error' = msg
        /\ loading' = FALSE
        /\ posts' = <<>>
        /\ Settle(r)
        /\ Step("fetchFail", r, <<>>)
        /\ UNCHANGED <<formData, mounted>>

\* catch and finally blocks of the fetch handler
FetchFail ==
    \E r \in BagToSet(inflight), msg \in FailureMsgs :
        /\ r.kind = "fetch"
        /\ error' = msg
        /\ loading' = FALSE
        /\ Settle(r)
        /\ Step("fetchFail", r, <<>>)
        /\ UNCHANGED <<posts, formData, mounted>>

\* variant: the element computed from the captured list, appended to the
\* list of the moment of the response
CreateOkAppendsToCurrentList ==
    \E r \in BagToSet(inflight) :
        /\ r.kind = "create"
        /\ \E newItem \in CreateResponses(r.itemData) :
            LET saved == CreateResult(r.items, newItem) IN
            /\ posts' = Append(posts, saved[Len(saved)])
            /\ Step("createOk", r, <<newItem>>)
        /\ formData' = clearFormData
        /\ Settle(r)
        /\ UNCHANGED <<loading, error, mounted>>

CreateOk ==
    \E r \in BagToSet(inflight) :
        /\ r.kind = "create"
        /\ \E newItem \in CreateResponses(r.itemData) :
            /\ posts' = CreateResult(r.items, newItem)
            /\ Step("createOk", r, <<newItem>>)
        /\ formData' = clearFormData
        /\ Settle(r)
        /\ UNCHANGED <<loading, error, mounted>>

\* variant: the form left as it is after a successful update
UpdateOkKeepsForm ==
    \E r \in BagToSet(inflight) :
        /\ r.kind = "update"
        /\ \E savedItem \in UpdateResponses(r.itemData) :
            /\ posts' = UpdateResult(r.items, r.itemData, savedItem)
            /\ Step("updateOk", r, <<savedItem>>)
        /\ Settle(r)
        /\ UNCHANGED <<loading, error, formData, mounted>>

UpdateOk ==
    \E r \in BagToSet(inflight) :
        /\ r.kind = "update"
        /\ \E savedItem \in UpdateResponses(r.itemData) :
            /\ posts' = UpdateResult(r.items, r.itemData, savedItem)
            /\ Step("updateOk", r, <<savedItem>>)
        /\ formData' = clearFormData
        /\ Settle(r)
        /\ UNCHANGED <<loading, error, mounted>>

\* variant: the filter applied to the list of the moment of the response
DeleteOkOnCurrentList ==
    \E r \in BagToSet(inflight) :
        /\ r.kind = "delete"
        /\ posts' = DeleteResult(posts, r.id)
        /\ Settle(r)
        /\ Step("deleteOk", r, <<>>)
        /\ UNCHANGED <<loading, error, formData, mounted>>

\* variant: the form reset when the deleted element is the one being edited
DeleteOkResetsEditedForm ==
    \E r \in BagToSet(inflight) :
        /\ r.kind = "delete"
        /\ posts' = DeleteResult(r.items, r.id)
        /\ formData' = IF formData.id = r.id THEN clearFormData ELSE formData
        /\ Settle(r)
        /\ Step("deleteOk", r, <<>>)
        /\ UNCHANGED <<loading, error, mounted>>

DeleteOk ==
    \E r \in BagToSet(inflight) :
        /\ r.kind = "delete"
        /\ posts' = DeleteResult(r.items, r.id)
        /\ Settle(r)
        /\ Step("deleteOk", r, <<>>)
        /\ UNCHANGED <<loading, error, formData, mounted>>

\* variant: the form cleared whether or not the request succeeded
WriteFailClearsForm ==
    \E r \in BagToSet(inflight), msg \in FailureMsgs :
        /\ r.kind \in {"create", "update", "delete"}
        /\ error' = msg
        /\ formData' = clearFormData
        /\ Settle(r)
        /\ Step(r.kind \o "Fail", r, <<>>)
        /\ UNCHANGED <<posts, loading, mounted>>

\* catch block of the create, update and delete handlers
WriteFail ==
    \E r \in BagToSet(inflight), msg \in FailureMsgs :
        /\ r.kind \in {"create", "update", "delete"}
        /\ error' = msg
        /\ Settle(r)
        /\ Step(r.kind \o "Fail", r, <<>>)
        /\ UNCHANGED <<posts, loading, formData, mounted>>

-----------------------------------------------------------------------------
Next ==
    \/ Mount
    \/ Refresh
    \/ ChangeTitle
    \/ ChangeBody
    \/ handleSubmit
    \/ startEdit
    \/ resetForm
    \/ ClickDelete
    \/ FetchOk
    \/ FetchFail
    \/ CreateOk
    \/ UpdateOk
    \/ DeleteOk
    \/ WriteFail

Spec == Init /\ [][Next]_vars

-----------------------------------------------------------------------------
(* The exported update handler called directly: a client of the action     *)
(* factory that calls the handler itself where the page goes through        *)
(* handleSubmit, which never passes an item without identifier.  The list,  *)
(* its rows and the draft are the page's; typing and submit are left out.   *)

\* the items a direct caller passes: without id, with id 0, with an id
ApiItems ==
    { Post(Undefined, 1, ServerText, ServerText),
      Post(0, 1, ServerText, ServerText),
      Post(3, 1, <<" ", "b">>, ServerText) }

InvokeUpdate ==
    /\ mounted
    /\ \E itemData \in ApiItems : handleUpdatePost("invokeUpdate", itemData)
    /\ UNCHANGED mounted

NextApi ==
    \/ Mount
    \/ Refresh
    \/ startEdit
    \/ resetForm
    \/ ClickDelete
    \/ InvokeUpdate
    \/ FetchOk
    \/ FetchFail
    \/ UpdateOk
    \/ DeleteOk
    \/ WriteFail

SpecApi == Init /\ [][NextApi]_vars

-----------------------------------------------------------------------------
(* The page without the form's typing and submit, which never touch the    *)
(* loading flag, under the scheduling the runtime gives: the mount effect  *)
(* runs, and a fetch in flight ends in a response or in a failure           *)

NextRows ==
    \/ Mount
    \/ Refresh
    \/ startEdit
    \/ resetForm
    \/ ClickDelete
    \/ FetchOk
    \/ FetchFail
    \/ DeleteOk
    \/ WriteFail

SpecFair ==
    /\ Init
    /\ [][NextRows]_vars
    /\ WF_vars(Mount)
    /\ WF_vars(FetchOk \/ FetchFail)

-----------------------------------------------------------------------------
(* Vocabulary of the properties *)

Ids(list) == {list[i].id : i \in 1..Len(list)}

Elems(list) == {list[i] : i \in 1..Len(list)}

Positions(list, id) == {i \in 1..Len(list) : list[i].id = id}

\* one plus the maximum identifier of the list, or 1 if it is empty
NextIdOf(list) == IF list = <<>> THEN 1 ELSE SetMax(Ids(list)) + 1

DistinctIds(list) ==
    \A i, j \in 1..Len(list) : list[i].id = list[j].id => i = j

\* the list before the step extended by one element carrying the next id
GrewByOne(before, after) ==
    /\ Len(after) = Len(before) + 1
    /\ SubSeq(after, 1, Len(before)) = before
    /\ after[Len(after)].id = NextIdOf(before)

\* the list before the step without the element(s) carrying id
LostOnly(before, after, id) ==
    /\ id \notin Ids(after)
    /\ Len(after) = Len(before) - (IF id \in Ids(before) THEN 1 ELSE 0)
    /\ \A e \in Elems(before) : e.id # id => e \in Elems(after)

\* exactly the one element carrying id replaced by saved
ReplacedOne(before, after, id, saved) ==
    /\ Len(after) = Len(before)
    /\ Cardinality(Positions(before, id)) = 1
    /\ \A i \in 1..Len(before) :
          after[i] = IF before[i].id = id THEN saved ELSE before[i]

-----------------------------------------------------------------------------
(* C1 *)

\* C1 as stated: a successful create extends the list as it was just
\* before the response was applied by one element, whose identifier is one
\* plus the maximum identifier of that list (1 if it was empty).
C1_CreateExtendsCurrentList ==
    [][last'.op = "createOk" => GrewByOne(posts, posts')]_vars

\* C1 amended: a successful create yields the list captured when the create
\* was submitted, extended by one element whose identifier is one plus the
\* maximum identifier of that captured list (1 if it was empty).
C1_CreateExtendsSubmittedList ==
    last.op = "createOk" => GrewByOne(last.req.items, posts)

\* a create applied to the captured list [3, 1] gave the new element id 4
C1_Witness ==
    /\ last.op = "createOk"
    /\ Len(last.req.items) = 2
    /\ posts[3].id = 4

-----------------------------------------------------------------------------
(* C2 *)

\* C2 as stated: a successful delete leaves the list as it was just before
\* the response was applied without the element carrying the identifier.
C2_DeleteShrinksCurrentList ==
    [][last'.op = "deleteOk" => LostOnly(posts, posts', last'.req.id)]_vars

\* C2 amended: a successful delete leaves the list captured when the delete
\* was confirmed without the element carrying the identifier: none with that
\* identifier, one element fewer, every other captured element present.
C2_DeleteShrinksSubmittedList ==
    last.op = "deleteOk" => LostOnly(last.req.items, posts, last.req.id)

\* a delete applied to a captured list of two elements left the other one
C2_Witness ==
    /\ last.op = "deleteOk"
    /\ Len(last.req.items) = 2
    /\ Len(posts) = 1

-----------------------------------------------------------------------------
(* C3 *)

\* C3 as stated: a successful update whose identifier is in the local list
\* replaces exactly that element of the list as it was just before the
\* response was applied; the others and the length are unchanged.
C3_UpdateReplacesInCurrentList ==
    [][(last'.op = "updateOk" /\ last'.req.id \in Ids(posts))
         => ReplacedOne(posts, posts', last'.req.id, last'.data[1])]_vars

\* C3 amended: a successful update whose identifier is in the list captured
\* when the update was submitted yields that captured list with exactly the
\* one element carrying the identifier replaced by the server's answer.
C3_UpdateReplacesInSubmittedList ==
    (last.op = "updateOk" /\ last.req.id \in Ids(last.req.items))
        => ReplacedOne(last.req.items, posts, last.req.id, last.data[1])

\* an update of one of two elements put an answer in place that differs
\* from the submitted item and from the element it replaced
C3_Witness ==
    /\ last.op = "updateOk"
    /\ Len(posts) = 2
    /\ last.req.id \in Ids(last.req.items)
    /\ last.data[1] # last.req.itemData
    /\ posts # last.req.items

-----------------------------------------------------------------------------
(* C4 *)

\* C4: right after a successful fetch the list is the response body, in the
\* same order, whatever it held before and whatever else is in flight.
C4_FetchReplacesList ==
    last.op = "fetchOk" => posts = last.data

\* a two-element body was applied while another request was in flight
C4_Witness ==
    /\ last.op = "fetchOk"
    /\ Len(last.data) = 2
    /\ InFlightCount > 0

-----------------------------------------------------------------------------
(* C5 *)

\* C5 as stated: when a fetch fails the list is the one the page held when
\* that fetch was issued, the error is set and loading is false.
C5_FailedFetchKeepsListOfIssue ==
    last.op = "fetchFail"
        => (posts = last.req.items /\ error # Null /\ ~loading)

\* C5 amended: the failure of a fetch leaves the list as it was just before
\* the failure was handled, sets the error to a message and loading to false.
C5_FailedFetchKeepsList ==
    [][last'.op = "fetchFail"
         => (posts' = posts /\ error' \in FailureMsgs /\ ~loading')]_vars

\* a fetch failed over a non-empty list
C5_Witness ==
    /\ last.op = "fetchFail"
    /\ Len(posts) > 0
    /\ error # Null
    /\ ~loading

-----------------------------------------------------------------------------
(* C6 *)

FailedWrites == {"createFail", "updateFail", "deleteFail"}

\* C6: the failure of a create, update or delete request sets the error to
\* a message and leaves the list and the form draft as they were.
C6_FailedWriteKeepsListAndDraft ==
    [][last'.op \in FailedWrites
         => (error' \in FailureMsgs /\ posts' = posts
             /\ formData' = formData)]_vars

\* a create failed and the submitted draft is still in the form
C6_Witness ==
    /\ last.op = "createFail"
    /\ formData = last.req.itemData
    /\ formData # clearFormData
    /\ error # Null

-----------------------------------------------------------------------------
(* C7 *)

\* C7: the identifiers of the local list are pairwise distinct in every
\* reachable state (fetch bodies carry distinct identifiers and an update
\* is answered with the identifier submitted).
C7_IdentifiersDistinct == DistinctIds(posts)

\* of two creates submitted over the same two-element list the first was
\* answered and the second is still in flight
C7_Witness ==
    /\ last.op = "createOk"
    /\ Len(posts) = 3
    /\ \E r \in BagToSet(inflight) :
          r.kind = "create" /\ r.items = last.req.items

-----------------------------------------------------------------------------
(* C8 *)

\* empty or whitespace-only
Blank(str) == \A i \in 1..Len(str) : str[i] = " "

Submits == {"submitInvalid", "submitCreate", "submitUpdate"}

\* C8: a submit while a required text field is empty or whitespace-only
\* sets the error message and issues no request; list and draft unchanged.
C8_BlankFieldRejected ==
    [][(last'.op \in Submits
          /\ (Blank(formData.title) \/ Blank(formData.body)))
         => (/\ last'.op = "submitInvalid"
             /\ error' = ValidationMsg
             /\ inflight' = inflight /\ issued' = issued
             /\ posts' = posts /\ formData' = formData)]_vars

\* an edit with a whitespace-only title was submitted and rejected
C8_Witness ==
    /\ last.op = "submitInvalid"
    /\ isEditing
    /\ formData.title = <<" ">>
    /\ formData.body # EmptyStr
    /\ error = ValidationMsg

-----------------------------------------------------------------------------
(* C9 *)

\* C9: the update operation invoked with an item whose identifier is missing
\* or zero records an error, issues no request and leaves list and draft.
C9_UpdateWithoutIdFailsFast ==
    [][(last'.op = "invokeUpdate" /\ last'.data[1].id \in {Undefined, 0})
         => (/\ error' = NoIdMsg
             /\ inflight' = inflight /\ issued' = issued
             /\ posts' = posts /\ formData' = formData)]_vars

\* update was called with id 0 over a non-empty list while a row was
\* being edited
C9_Witness ==
    /\ last.op = "invokeUpdate"
    /\ last.data[1].id = 0
    /\ error = NoIdMsg
    /\ Len(posts) > 0
    /\ isEditing

-----------------------------------------------------------------------------
(* C10 *)

\* the step puts a delete request for a row of the list in flight
SendsDelete(r) ==
    /\ r.kind = "delete"
    /\ CopiesIn(r, inflight') > CopiesIn(r, inflight)

\* C10: a delete request is put in flight only by the step in which the
\* user confirmed the dialog of that row; declining changes nothing.
C10_DeleteOnlyWhenConfirmed ==
    [][/\ \A r \in BagToSet(inflight') :
            SendsDelete(r)
                => (last'.op = "deleteConfirmed" /\ r.id \in Ids(posts))
       /\ last'.op = "deleteDeclined"
            => UNCHANGED <<posts, loading, error, formData, inflight, issued>>
      ]_vars

\* the dialog was confirmed and the delete of that row is in flight
C10_Witness ==
    /\ last.op = "deleteConfirmed"
    /\ \E r \in BagToSet(inflight) : r.kind = "delete" /\ r.id \in Ids(posts)

-----------------------------------------------------------------------------
(* C11 *)

FetchInFlight == \E r \in BagToSet(inflight) : r.kind = "fetch"

\* the step puts a fetch request in flight
SendsFetch ==
    \E r \in BagToSet(inflight') :
        r.kind = "fetch" /\ CopiesIn(r, inflight') > CopiesIn(r, inflight)

FetchSettled == {"fetchOk", "fetchFail"}

\* C11 as stated: in every reachable state in which some fetch is in flight,
\* overlapping fetches included, loading is true.
C11_LoadingWhileAnyFetchInFlight == FetchInFlight => loading

\* C11 amended: issuing a fetch sets loading, loading then stays true until
\* a fetch settles, and the settling of any fetch clears it, also while
\* another fetch is still in flight.
C11_LoadingUntilSomeFetchSettles ==
    [][/\ SendsFetch => loading'
       /\ (loading /\ ~loading') => last'.op \in FetchSettled
       /\ last'.op \in FetchSettled => ~loading'
      ]_vars

\* one of two overlapping fetches settled: the other is in flight and the
\* loading flag is already false
C11_Witness ==
    /\ last.op \in FetchSettled
    /\ FetchInFlight
    /\ ~loading

-----------------------------------------------------------------------------
(* C12 *)

\* C12: the page starts loading, the mount effect puts a fetch in flight,
\* and when every fetch in flight ends in a response or a failure, loading
\* becomes false, whether the fetch succeeded or failed.
C12_LoadingEnds ==
    /\ [](~mounted => loading)
    /\ [][(~mounted /\ mounted') => (SendsFetch /\ loading')]_vars
    /\ loading ~> ~loading

\* the only fetch issued failed and the page shows its empty list
C12_Witness ==
    /\ mounted
    /\ ~loading
    /\ last.op = "fetchFail"
    /\ issued = 1
    /\ posts = <<>>

-----------------------------------------------------------------------------
(* C13 *)

ListChanged == {"createOk", "updateOk", "deleteOk"}

\* what a successful response adds to the list it captured
OwnElems(step) ==
    CASE step.op = "createOk" ->
             {[step.data[1] EXCEPT !.id = NextIdOf(step.req.items)]}
      [] step.op = "updateOk" -> {step.data[1]}
      [] OTHER -> {}

\* C13: the list after a successful create, update or delete holds only
\* elements of the list captured at submit and the response's own element,
\* so what a response applied in between put in the list is gone; of two
\* overlapping deletes of different identifiers of the same captured list,
\* the element the first response removed is back after the second.
C13_LastResponseWins ==
    [][/\ last'.op \in ListChanged =>
            /\ Elems(posts') \subseteq
                   Elems(last'.req.items) \cup OwnElems(last')
            /\ \A e \in Elems(last'.req.items) :
                   e.id # last'.req.id => e \in Elems(posts')
       /\ ( /\ last.op = "deleteOk" /\ last'.op = "deleteOk"
            /\ last.req.items = last'.req.items
            /\ last.req.id # last'.req.id
            /\ last.req.id \in Ids(last.req.items) )
          => /\ last.req.id \notin Ids(posts)
             /\ last.req.id \in Ids(posts')
      ]_vars

\* between the responses of two overlapping deletes of a two-element list:
\* the first removed its element, the second, still in flight, holds the
\* list with that element
C13_Witness ==
    /\ last.op = "deleteOk"
    /\ Len(last.req.items) = 2
    /\ Ids(posts) = Ids(last.req.items) \ {last.req.id}
    /\ \E r \in BagToSet(inflight) :
          /\ r.kind = "delete"
          /\ r.items = last.req.items
          /\ r.id \in Ids(posts)

-----------------------------------------------------------------------------
(* C14 *)

\* two successful create responses applied one after the other, both
\* submitted over the same captured list: the second was in flight when
\* the first was applied
RacingCreatesApplied ==
    /\ last.op = "createOk"
    /\ last'.op = "createOk"
    /\ last.req.items = last'.req.items

\* C14 as stated: after two racing creates both succeeded, the list holds
\* two elements with the same identifier.
C14_RacingCreatesLeaveDuplicate ==
    [][RacingCreatesApplied => ~DistinctIds(posts')]_vars

\* C14 amended: two racing creates compute the same identifier, and the
\* second response puts the captured list plus its own element in place
\* of the list of the first: the length stays, the element of the first
\* create is replaced, and no identifier occurs twice.
C14_RacingCreatesOverwrite ==
    [][RacingCreatesApplied =>
          /\ posts[Len(posts)].id = NextIdOf(last.req.items)
          /\ posts'[Len(posts')].id = posts[Len(posts)].id
          /\ Len(posts') = Len(posts)
          /\ Len(posts') = Len(last'.req.items) + 1
          /\ SubSeq(posts', 1, Len(posts') - 1) = last'.req.items
          /\ Cardinality(Positions(posts', NextIdOf(last.req.items))) = 1
      ]_vars

\* the first of two creates submitted over the empty list has been
\* applied, the second is still in flight
C14_Witness ==
    /\ last.op = "createOk"
    /\ last.req.items = <<>>
    /\ Len(posts) = 1
    /\ \E r \in BagToSet(inflight) :
          r.kind = "create" /\ r.items = <<>>

-----------------------------------------------------------------------------
(* C15 *)

Viewing == formData = clearFormData /\ ~isEditing

\* C15 as stated: after a cancel, and after an update request settled, by a
\* response or by a failure, the draft is the empty template without
\* identifier.
C15_ViewingAfterCancelOrSettledUpdate ==
    last.op \in {"cancel", "updateOk", "updateFail"} => Viewing

\* C15 amended: a cancel and a successful update leave the draft equal to
\* the empty template, without identifier; a failed update leaves the
\* draft as it was, so the page stays in Editing mode.
C15_ViewingAfterCancelOrSuccessfulUpdate ==
    [][/\ last'.op \in {"cancel", "updateOk"} => Viewing'
       /\ last'.op = "updateFail" => formData' = formData
      ]_vars

\* an update submitted from Editing mode succeeded with nothing else in
\* flight: the draft is the empty template
C15_Witness ==
    /\ last.op = "updateOk"
    /\ Truthy(last.req.itemData.id)
    /\ Viewing
    /\ InFlightCount = 0

-----------------------------------------------------------------------------
(* C16 *)

\* the requests the step puts in flight
Sent == {r \in BagToSet(inflight') :
            CopiesIn(r, inflight') > CopiesIn(r, inflight)}

ValidDraft == ~Blank(formData.title) /\ ~Blank(formData.body)

\* C16: a valid submit of a draft carrying a positive identifier issues
\* one update for that identifier and the draft, and no create; a valid
\* submit of a draft without identifier issues one create and no update;
\* and the draft comes to carry an identifier only as the copy of a row.
C16_IdentifierDecidesRequest ==
    [][/\ (last'.op \in Submits /\ ValidDraft /\ formData.id > 0) =>
            /\ last'.op = "submitUpdate"
            /\ Sent = {Request("update", posts, formData, formData.id)}
       /\ (last'.op \in Submits /\ ValidDraft /\ ~(formData.id > 0)) =>
            /\ last'.op = "submitCreate"
            /\ Sent = {Request("create", posts, formData, 0)}
       /\ (formData'.id > 0 /\ formData'.id # formData.id) =>
            /\ formData' \in Elems(posts)
            /\ Sent = {}
      ]_vars

\* Edit was selected on a row, the text changed, and the submit put an
\* update for the row's identifier in flight
C16_Witness ==
    /\ last.op = "submitUpdate"
    /\ formData.id \in Ids(posts)
    /\ formData \notin Elems(posts)
    /\ \E r \in BagToSet(inflight) :
          r.kind = "update" /\ r.id = formData.id /\ r.itemData = formData
    /\ \A r \in BagToSet(inflight) : r.kind # "create"

-----------------------------------------------------------------------------
(* C17 *)

Failures == {"fetchFail", "createFail", "updateFail", "deleteFail"}

\* C17: a step that puts a fetch, create, update or delete in flight sets
\* the error message to null, a rejected submit sets the validation
\* message, and a message is displayed after a step only if the step is a
\* failure or a rejected submit, or if the message was there before and no
\* request was issued by the step.
C17_AttemptReplacesError ==
    [][/\ Sent # {} => error' = Null
       /\ last'.op = "submitInvalid" => error' = ValidationMsg
       /\ error' # Null =>
            \/ last'.op \in Failures \cup {"submitInvalid"}
            \/ (error' = error /\ Sent = {})
      ]_vars

\* the mount fetch failed (the list is empty and loading is over), and the
\* create submitted afterwards removed its message
C17_Witness ==
    /\ last.op = "submitCreate"
    /\ posts = <<>>
    /\ ~loading
    /\ issued = 2
    /\ InFlightCount = 1
    /\ error = Null

-----------------------------------------------------------------------------
(* C18 *)

\* the positions of list whose element does not carry id
KeptPositions(list, id) == {i \in 1..Len(list) : list[i].id # id}

\* C18: with positions taken in the list the handler works on (the list
\* captured at submit), a fetched list is in the order of the response
\* body, a successful create keeps every position and places the new
\* element last, a successful update puts the answer at the position of
\* the matched element and keeps every other position, and a successful
\* delete keeps the remaining elements in their relative order.
C18_OrderKept ==
    LET snap == last.req.items IN
    /\ last.op = "fetchOk" => posts = last.data
    /\ last.op = "createOk" =>
          /\ Len(posts) = Len(snap) + 1
          /\ \A i \in 1..Len(snap) : posts[i] = snap[i]
          /\ posts[Len(posts)] \in OwnElems(last)
    /\ last.op = "updateOk" =>
          /\ Len(posts) = Len(snap)
          /\ \A i \in 1..Len(snap) :
                posts[i] = IF i \in KeptPositions(snap, last.req.id)
                           THEN snap[i] ELSE last.data[1]
    /\ last.op = "deleteOk" =>
          LET kept == KeptPositions(snap, last.req.id) IN
          /\ Len(posts) = Cardinality(kept)
          /\ \A i \in kept :
                posts[Cardinality({j \in kept : j <= i})] = snap[i]

\* an update of the second of two elements: the answer is second, the
\* first element is where it was
C18_Witness ==
    /\ last.op = "updateOk"
    /\ Len(last.req.items) = 2
    /\ last.req.items[2].id = last.req.id
    /\ posts[1] = last.req.items[1]
    /\ posts[2] = last.data[1]
    /\ posts[2] # last.req.items[2]

-----------------------------------------------------------------------------
(* C19 *)

\* the steps of fetch and delete: the click that runs or declines a
\* delete, the issue of a fetch or delete request, and their settling
FetchOrDeleteStep ==
    \/ last'.op \in {"fetchOk", "fetchFail", "deleteOk", "deleteFail",
                     "deleteConfirmed", "deleteDeclined"}
    \/ \E r \in Sent : r.kind \in {"fetch", "delete"}

\* C19: no step of a fetch or of a delete, issued, succeeded or failed,
\* changes the form draft, also when the draft carries the identifier that
\* was deleted or that the fetched list lacks; a page in Editing mode
\* stays in Editing mode.
C19_FetchAndDeleteKeepDraft ==
    [][FetchOrDeleteStep =>
          /\ formData' = formData
          /\ isEditing => isEditing'
      ]_vars

\* the element being edited was deleted: the draft still carries its
\* identifier, which the list no longer holds
C19_Witness ==
    /\ last.op = "deleteOk"
    /\ isEditing
    /\ formData.id = last.req.id
    /\ formData.id \notin Ids(posts)

====
